---- MODULE Spec2Model ----
(***************************************************************************)
(* Model of src/hack/app.py (WebPulse360): the /audit handler, the four    *)
(* analyzers and the weighted aggregation.                                 *)
(*                                                                         *)
(* Python floats are IEEE-754 binary64.  They are modelled exactly: a      *)
(* float is a record [m, e] standing for m * 2^e, where m is a natural     *)
(* number kept as a little-endian sequence of 14-bit limbs, and every      *)
(* operation computes the exact result and rounds it to 53 significant     *)
(* bits, ties to even, as the hardware does.                               *)
(***************************************************************************)
EXTENDS Integers, Sequences, FiniteSets, TLC

(***************************************************************************)
(* Natural numbers of any size: little-endian limbs, no high zero limb.    *)
(* An operation forms its result column by column and then carries.        *)
(***************************************************************************)
Base == 2^14

Min2(a, b) == IF a <= b THEN a ELSE b

Max2(a, b) == IF a >= b THEN a ELSE b

MaxOf(S) == CHOOSE x \in S : \A y \in S : y <= x

MinOf(S) == CHOOSE x \in S : \A y \in S : x <= y

Limb(a, i) == IF 1 <= i /\ i <= Len(a) THEN a[i] ELSE 0

Zeros(n) == [i \in 1..n |-> 0]

NatTrim(a) == SubSeq(a, 1, MaxOf({0} \cup {i \in 1..Len(a) : a[i] # 0}))

\* the carry out of column k of the column sums c
RECURSIVE Carry(_, _)
Carry(c, k) == IF k = 0 THEN 0 ELSE (c[k] + Carry(c, k - 1)) \div Base

\* the number whose columns sum to c (the top column takes the last carry)
Normalize(c) == NatTrim([k \in 1..Len(c) |-> (c[k] + Carry(c, k - 1)) % Base])

NatFromInt(n) == NatTrim([i \in 1..3 |-> (n \div Base^(i - 1)) % Base])

\* for a below 2^31
NatToInt(a) == Limb(a, 1) + Base * Limb(a, 2) + Base * Base * Limb(a, 3)

NatAdd(a, b) ==
    IF a = <<>> THEN b
    ELSE IF b = <<>> THEN a
    ELSE Normalize([k \in 1..(Max2(Len(a), Len(b)) + 1) |-> Limb(a, k) + Limb(b, k)])

\* a - b for a >= b
NatSub(a, b) ==
    IF b = <<>> THEN a
    ELSE Normalize([k \in 1..Len(a) |-> a[k] - Limb(b, k)])

\* -1, 0, 1 as a < b, a = b, a > b
NatCmpAt(a, b, k) == IF a[k] < b[k] THEN -1 ELSE 1

NatCmp(a, b) ==
    IF Len(a) < Len(b) THEN -1
    ELSE IF Len(a) > Len(b) THEN 1
    ELSE IF \A i \in 1..Len(a) : a[i] = b[i] THEN 0
    ELSE NatCmpAt(a, b, MaxOf({i \in 1..Len(a) : a[i] # b[i]}))

\* a * k for 0 <= k < Base
NatMulSmall(a, k) ==
    IF a = <<>> \/ k = 0 THEN <<>>
    ELSE Normalize([i \in 1..(Len(a) + 1) |-> Limb(a, i) * k])

\* the sum of the products a[i] * b[j] with i + j = k + 1, i from 1 to n
RECURSIVE ColumnSum(_, _, _, _)
ColumnSum(a, b, k, n) ==
    IF n = 0 THEN 0 ELSE Limb(a, n) * Limb(b, k + 1 - n) + ColumnSum(a, b, k, n - 1)

NatMul(a, b) ==
    IF a = <<>> \/ b = <<>> THEN <<>>
    ELSE Normalize([k \in 1..(Len(a) + Len(b)) |->
                       ColumnSum(a, b, k, Min2(k, Len(a)))])

\* the remainder by d of the number made of the limbs i and above of a
RECURSIVE RemFrom(_, _, _)
RemFrom(a, d, i) ==
    IF i > Len(a) THEN 0 ELSE (RemFrom(a, d, i + 1) * Base + a[i]) % d

\* quotient and remainder of a by d, 0 < d < Base
NatDivSmall(a, d) ==
    IF a = <<>> THEN [q |-> <<>>, r |-> 0]
    ELSE
    [ q |-> NatTrim([i \in 1..Len(a) |-> (RemFrom(a, d, i + 1) * Base + a[i]) \div d]),
      r |-> RemFrom(a, d, 1) ]

NatShl(a, n) ==
    IF a = <<>> THEN <<>>
    ELSE Zeros(n \div 14) \o NatMulSmall(a, 2^(n % 14))

\* a shifted right by limbs whole limbs and bits < 14 bits
NatShrBy(a, limbs, bits) ==
    NatTrim([i \in 1..(Len(a) - limbs) |->
                (Limb(a, i + limbs) \div 2^bits)
                    + (Limb(a, i + limbs + 1) % 2^bits) * 2^(14 - bits)])

NatShr(a, n) == IF a = <<>> \/ n = 0 THEN a ELSE NatShrBy(a, n \div 14, n % 14)

\* the number of bits of n, 0 <= n < Base
IntBitLen(n) == Cardinality({k \in 0..13 : 2^k <= n})

NatBitLen(a) ==
    IF a = <<>> THEN 0 ELSE 14 * (Len(a) - 1) + IntBitLen(a[Len(a)])

NatIsOdd(a) == a # <<>> /\ a[1] % 2 = 1

\* the number of zero bits below the lowest one bit of n, 0 < n < Base
IntTrailingZeros(n) == Cardinality({k \in 1..13 : n % 2^k = 0})

\* the same for a # 0, i being its lowest limb that is not zero
NatTrailingZerosAt(a, i) == 14 * (i - 1) + IntTrailingZeros(a[i])

NatTrailingZeros(a) == NatTrailingZerosAt(a, MinOf({i \in 1..Len(a) : a[i] # 0}))

(***************************************************************************)
(* binary64 values >= 0: [m, e] is m * 2^e, m odd or zero (so that equal   *)
(* values are equal records).                                              *)
(***************************************************************************)
FZero == [m |-> <<>>, e |-> 0]

FNormBy(m, e, zeros) == [m |-> NatShr(m, zeros), e |-> e + zeros]

FNorm(m, e) == IF m = <<>> THEN FZero ELSE FNormBy(m, e, NatTrailingZeros(m))

\* q, or q + 1 when the dropped part c (-1, 0, 1: below, at, above one
\* half) rounds up: to nearest, ties to even
RoundUp(q, c) == IF c = 1 \/ (c = 0 /\ NatIsOdd(q)) THEN NatAdd(q, <<1>>) ELSE q

\* m with its sh lowest bits rounded away, q being m shifted right by sh
DropBits(m, sh, q) ==
    IF q = <<>> /\ m = <<>> THEN <<>>
    ELSE RoundUp(q, NatCmp(NatSub(m, NatShl(q, sh)), NatShl(<<1>>, sh - 1)))

\* the exact value m * 2^e rounded to 53 significant bits, ties to even
FRoundLen(m, e, len) ==
    IF len <= 53 THEN FNorm(m, e)
    ELSE FNorm(DropBits(m, len - 53, NatShr(m, len - 53)), e + (len - 53))

FRound(m, e) == IF m = <<>> THEN FZero ELSE FRoundLen(m, e, NatBitLen(m))

FFromInt(n) == FNorm(NatFromInt(n), 0)

\* x and y as integers over the same power of two, 2^lo
Aligned(x, lo) == NatShl(x.m, x.e - lo)

FAddAt(x, y, lo) == FRound(NatAdd(Aligned(x, lo), Aligned(y, lo)), lo)

FAdd(x, y) ==
    IF x = FZero THEN y
    ELSE IF y = FZero THEN x
    ELSE FAddAt(x, y, Min2(x.e, y.e))

\* x - y for x >= y
FSubAt(x, y, lo) == FRound(NatSub(Aligned(x, lo), Aligned(y, lo)), lo)

FSub(x, y) ==
    IF y = FZero THEN x
    ELSE IF x = y THEN FZero
    ELSE FSubAt(x, y, Min2(x.e, y.e))

FMul(x, y) ==
    IF x = FZero \/ y = FZero THEN FZero
    ELSE FRound(NatMul(x.m, y.m), x.e + y.e)

\* the float k / n of two ints, 0 <= k, 0 < n < Base: the quotient to 75
\* fractional bits, its lowest bit made sticky when the division is inexact
Sticky(d) == IF d.r # 0 /\ ~NatIsOdd(d.q) THEN NatAdd(d.q, <<1>>) ELSE d.q

FDivInt(k, n) == FRound(Sticky(NatDivSmall(NatShl(NatFromInt(k), 75), n)), -75)

FCmpAt(x, y, lo) == NatCmp(Aligned(x, lo), Aligned(y, lo))

FCmp(x, y) == IF x = y THEN 0 ELSE FCmpAt(x, y, Min2(x.e, y.e))

\* Python's round(x) of a float: the nearest int, ties to even
FRoundToInt(x) ==
    IF x.e >= 0 THEN NatToInt(NatShl(x.m, x.e))
    ELSE NatToInt(DropBits(x.m, -x.e, NatShr(x.m, -x.e)))

(***************************************************************************)
(* Values.  Python's None is the record NoneVal.  A string is a sequence   *)
(* of one-character strings where the code looks inside it (URLs), and a   *)
(* sequence of words where it only searches it (issues, Set-Cookie).       *)
(* Seconds are kept in hundredths (fetch_page rounds to 2 decimals), the   *)
(* simulated LCP and FCP in milliseconds, CLS in thousandths, page sizes   *)
(* in bytes and in hundredths of a KB.                                     *)
(***************************************************************************)
NoneVal == [none |-> TRUE]

NoTime == 0 - 1

\* n / d rounded to the nearest integer, ties to even (Python's round)
RoundHalfEven(n, d) ==
    LET q == n \div d
        r == n % d
    IN  IF 2 * r > d \/ (2 * r = d /\ q % 2 = 1) THEN q + 1 ELSE q

\* str() of a float that holds h hundredths: 700 -> "7.0", 725 -> "7.25"
FmtHundredths(h) ==
    ToString(h \div 100) \o "." \o
        (IF h % 10 = 0 THEN ToString((h % 100) \div 10)
         ELSE IF h % 100 < 10 THEN "0" \o ToString(h % 100)
         ELSE ToString(h % 100))

(***************************************************************************)
(* normalize_url, hostname_from_url                                        *)
(***************************************************************************)
HTTP == <<"h", "t", "t", "p", ":", "/", "/">>

HTTPS == <<"h", "t", "t", "p", "s", ":", "/", "/">>

IsSpace(c) == c \in {" ", "\t", "\n"}

RECURSIVE LStrip(_)
LStrip(s) ==
    IF s # <<>> /\ IsSpace(Head(s)) THEN LStrip(Tail(s)) ELSE s

RECURSIVE RStrip(_)
RStrip(s) ==
    IF s # <<>> /\ IsSpace(s[Len(s)]) THEN RStrip(SubSeq(s, 1, Len(s) - 1)) ELSE s

Strip(s) == RStrip(LStrip(s))

StartsWith(s, p) == Len(s) >= Len(p) /\ SubSeq(s, 1, Len(p)) = p

normalize_url(url) ==
    LET u == Strip(url)
    IN  IF ~(StartsWith(u, HTTP) \/ StartsWith(u, HTTPS)) THEN HTTPS \o u ELSE u

\* the characters of s before the first of "/", "?" and "#"
RECURSIVE UpToDelimiter(_)
UpToDelimiter(s) ==
    IF s = <<>> \/ Head(s) \in {"/", "?", "#"} THEN <<>>
    ELSE <<Head(s)>> \o UpToDelimiter(Tail(s))

\* urlparse(url).netloc for a URL that starts with http:// or https://
NetLoc(url) ==
    IF StartsWith(url, HTTPS) THEN UpToDelimiter(SubSeq(url, Len(HTTPS) + 1, Len(url)))
    ELSE IF StartsWith(url, HTTP) THEN UpToDelimiter(SubSeq(url, Len(HTTP) + 1, Len(url)))
    ELSE <<>>

hostname_from_url(url) == IF NetLoc(url) # <<>> THEN NetLoc(url) ELSE url

\* Python's truth value of a string: non-empty
StrTruthy(s) == s # <<>>

(***************************************************************************)
(* letter_grade, SECURITY_HEADERS                                          *)
(***************************************************************************)
letter_grade(score) ==
    IF score >= 90 THEN "A+"
    ELSE IF score >= 80 THEN "A"
    ELSE IF score >= 70 THEN "B"
    ELSE IF score >= 60 THEN "C"
    ELSE IF score >= 50 THEN "D"
    ELSE "F"

SECURITY_HEADERS ==
    << "Content-Security-Policy", "Strict-Transport-Security",
       "X-Content-Type-Options", "X-Frame-Options",
       "Referrer-Policy", "Permissions-Policy" >>

SecurityHeaderNames == {SECURITY_HEADERS[i] : i \in 1..Len(SECURITY_HEADERS)}

(***************************************************************************)
(* A response is NoneVal or a record                                       *)
(*   status_code, headers (the names present), set_cookie (NoneVal or     *)
(*   [value |-> the words of the Set-Cookie value]), content_len (bytes), *)
(*   text (EmptyText, or what BeautifulSoup finds in the page).           *)
(***************************************************************************)
\* requests.Response.__bool__ is Response.ok: the status is below 400
RespTruthy(resp) == resp # NoneVal /\ resp.status_code < 400

\* str.lower() on the words a Set-Cookie value is made of
Lower(w) ==
    CASE w \in {"Secure", "SECURE", "secure"} -> "secure"
      [] w \in {"HttpOnly", "HTTPONLY", "httponly"} -> "httponly"
      [] OTHER -> w

\* "word" in value: the search without lower()
ContainsExact(value, word) == \E i \in 1..Len(value) : value[i] = word

\* "word" in value.lower()
ContainsLower(value, word) == \E i \in 1..Len(value) : Lower(value[i]) = word

\* [h for h in seq if h not in present]
RECURSIVE SelectHeaders(_, _)
SelectHeaders(seq, present) ==
    IF seq = <<>> THEN <<>>
    ELSE (IF Head(seq) \notin present THEN <<Head(seq)>> ELSE <<>>)
             \o SelectHeaders(Tail(seq), present)

MissingHeaderIssues(missing) ==
    [i \in 1..Len(missing) |-> <<"Missing", missing[i], "header.">>]

SecurityHeadersMetric(resp) ==
    IF RespTruthy(resp)
    THEN [h \in SecurityHeaderNames |-> h \in resp.headers]
    ELSE << >>

(***************************************************************************)
(* The analyzers keep a running score and a list of issues; st is the      *)
(* record [score, issues] of the two.                                      *)
(***************************************************************************)
\* if cond: score -= points; issues.append(issue)
Deduct(st, cond, points, issue) ==
    IF cond
    THEN [score |-> st.score - points, issues |-> Append(st.issues, issue)]
    ELSE st

(***************************************************************************)
(* analyze_security(resp, ssl_ok); rnd is the value of random.random()     *)
(* in thousandths.                                                         *)
(***************************************************************************)
TlsCheck(ssl_ok) ==
    Deduct([score |-> 100, issues |-> <<>>], ~ssl_ok, 40,
           <<"Invalid", "SSL/TLS", "certificate.">>)

HeaderCheck(st, missing_headers) ==
    [ score  |-> st.score - Len(missing_headers) * 10,
      issues |-> st.issues \o MissingHeaderIssues(missing_headers) ]

HasCookie(resp) == resp.set_cookie # NoneVal /\ StrTruthy(resp.set_cookie.value)

SecureCheck(st, resp) ==
    Deduct(st, HasCookie(resp) /\ ~ContainsLower(resp.set_cookie.value, "secure"), 10,
           <<"Cookies", "missing", "Secure", "flag.">>)

HttpOnlyCheck(st, resp) ==
    Deduct(st, HasCookie(resp) /\ ~ContainsLower(resp.set_cookie.value, "httponly"), 10,
           <<"Cookies", "missing", "HttpOnly", "flag.">>)

\* the else branch without score = 0
NoFetchKeepScore(st) ==
    [ score  |-> st.score,
      issues |-> Append(st.issues, <<"Could", "not", "fetch", "page", "for",
                                     "security", "analysis.">>) ]

NoFetch(st) ==
    [ score  |-> 0,
      issues |-> Append(st.issues, <<"Could", "not", "fetch", "page", "for",
                                     "security", "analysis.">>) ]

SecurityResult(st, resp, ssl_ok, rnd) ==
    [ metrics |-> [ score            |-> Max2(0, st.score),
                    ssl_valid        |-> ssl_ok,
                    security_headers |-> SecurityHeadersMetric(resp),
                    phishing_risk    |-> IF rnd > 100 THEN "LOW RISK" ELSE "HIGH RISK" ],
      issues  |-> st.issues ]

analyze_security(resp, ssl_ok, rnd) ==
    SecurityResult(
        IF resp # NoneVal
        THEN HttpOnlyCheck(
                 SecureCheck(
                     HeaderCheck(TlsCheck(ssl_ok),
                                 SelectHeaders(SECURITY_HEADERS, resp.headers)),
                     resp),
                 resp)
        ELSE NoFetch(TlsCheck(ssl_ok)),
        resp, ssl_ok, rnd)

(***************************************************************************)
(* analyze_performance(resp, load_time); lcp, fcp and cls are the values   *)
(* random.uniform returned (milliseconds, milliseconds, thousandths).      *)
(***************************************************************************)
\* round(len(resp.content) / 1024, 2), in hundredths of a KB
SizeKb(content_len) == RoundHalfEven(content_len * 100, 1024)

\* the bounds of random.uniform(load_time * 0.8, load_time * 1.2), in ms
LcpLow(load_time) == IF load_time # NoTime THEN 8 * load_time ELSE 0

LcpHigh(load_time) == IF load_time # NoTime THEN 12 * load_time ELSE 0

\* the bounds of random.uniform(load_time * 0.4, load_time * 0.8), in ms
FcpLow(load_time) == IF load_time # NoTime THEN 4 * load_time ELSE 0

FcpHigh(load_time) == IF load_time # NoTime THEN 8 * load_time ELSE 0

\* the bounds of random.uniform(0.0, 0.25), in thousandths
ClsLow == 0

ClsHigh == 250

\* min(100, score): the clamp without its lower end
ClampAbove(score) == Min2(100, score)

Clamp(score) == Max2(0, Min2(100, score))

VitalsCheck(lcp, fcp, cls) ==
    Deduct(
        Deduct(
            Deduct([score |-> 100, issues |-> <<>>], lcp > 2500, 20,
                   <<"High", "Largest", "Contentful", "Paint", "(LCP)", "-",
                     "Page", "rendering", "is", "slow.">>),
            fcp > 1800, 15,
            <<"High", "First", "Contentful", "Paint", "(FCP)", "-",
              "Initial", "content", "took", "time", "to", "display.">>),
        cls > 100, 10,
        <<"High", "Cumulative", "Layout", "Shift", "(CLS)", "-",
          "Page", "layout", "is", "unstable.">>)

LoadTimeIssue(level, load_time) ==
    level \o <<"load", "time", FmtHundredths(load_time) \o "s.">>

\* the tiers tested from the lowest up: any time above 2 s is "Moderate"
LoadTimeCheckAscending(st, load_time) ==
    IF load_time = NoTime
    THEN Deduct(st, TRUE, 20, <<"Could", "not", "measure", "load", "time.">>)
    ELSE Deduct(st, load_time > 200, 15, LoadTimeIssue(<<"Moderate">>, load_time))

LoadTimeCheck(st, load_time) ==
    IF load_time = NoTime
    THEN Deduct(st, TRUE, 20, <<"Could", "not", "measure", "load", "time.">>)
    ELSE IF load_time > 600
    THEN Deduct(st, TRUE, 45, LoadTimeIssue(<<"Very", "high">>, load_time))
    ELSE IF load_time > 400
    THEN Deduct(st, TRUE, 30, LoadTimeIssue(<<"High">>, load_time))
    ELSE Deduct(st, load_time > 200, 15, LoadTimeIssue(<<"Moderate">>, load_time))

SizeIssue(level, size_kb, advice) ==
    <<"Page">> \o level \o <<FmtHundredths(size_kb), "KB.">> \o advice

SizeCheck(st, size_kb) ==
    IF size_kb > 409600
    THEN Deduct(st, TRUE, 30, SizeIssue(<<"very", "large:">>, size_kb,
                                        <<"Consider", "optimizing", "assets.">>))
    ELSE IF size_kb > 204800
    THEN Deduct(st, TRUE, 20, SizeIssue(<<"large:">>, size_kb,
                                        <<"Consider", "optimizing", "assets.">>))
    ELSE Deduct(st, size_kb > 102400, 10,
                SizeIssue(<<"medium:">>, size_kb, <<"Could", "be", "optimized.">>))

PerformanceResult(st, resp, load_time, size_kb, lcp, fcp, cls) ==
    [ metrics |-> [ status_code  |-> resp.status_code,
                    load_time_s  |-> load_time,
                    page_size_kb |-> size_kb,
                    metrics      |-> [ lcp |-> RoundHalfEven(lcp, 10),
                                       fcp |-> RoundHalfEven(fcp, 10),
                                       cls |-> cls ] ],
      score   |-> Clamp(st.score),
      issues  |-> st.issues ]

analyze_performance(resp, load_time, lcp, fcp, cls) ==
    IF resp = NoneVal
    THEN [ metrics |-> << >>, score |-> 0,
           issues |-> << <<"Site", "not", "reachable", "for", "performance", "test.">> >> ]
    ELSE PerformanceResult(
             SizeCheck(LoadTimeCheck(VitalsCheck(lcp, fcp, cls), load_time),
                       SizeKb(resp.content_len)),
             resp, load_time, SizeKb(resp.content_len), lcp, fcp, cls)

(***************************************************************************)
(* analyze_seo(html, url).  html is EmptyText or a record of what the      *)
(* parser finds: title_len (the stripped length of the title string,       *)
(* NoTitle without one), desc_len (the stripped length of the meta         *)
(* description's content, 0 without one), h1_count, og_count, imgs,        *)
(* imgs_no_alt, html_lang, links, empty_links.  robots and sitemap are the *)
(* outcomes of the two HEAD requests: "200", "other", "error".             *)
(***************************************************************************)
EmptyText == [empty |-> TRUE]

NoTitle == 0 - 1

\* score += points
Gain(st, points) == [score |-> st.score + points, issues |-> st.issues]

\* issues.append(issue)
Report1(st, issue) == [score |-> st.score, issues |-> Append(st.issues, issue)]

TitleCheck(st, title_len) ==
    IF title_len > 0
    THEN IF 10 <= title_len /\ title_len <= 70
         THEN Gain(st, 20 + 10)
         ELSE Report1(Gain(st, 20), <<"Title", "length", "not", "optimal", "(10-70",
                                      "characters", "recommended).">>)
    ELSE Report1(st, <<"Missing", "<title>", "tag.">>)

DescCheck(st, desc_len) ==
    IF desc_len > 0
    THEN IF 50 <= desc_len /\ desc_len <= 160
         THEN Gain(st, 20 + 10)
         ELSE Report1(Gain(st, 20), <<"Meta", "description", "length", "not", "optimal",
                                      "(50-160", "characters", "recommended).">>)
    ELSE Report1(st, <<"Missing", "meta", "description.">>)

H1Check(st, h1_count) ==
    IF h1_count = 1 THEN Gain(st, 10)
    ELSE IF h1_count > 1
    THEN Report1(st, <<"Multiple", "<h1>", "headings", "found.", "Use", "only",
                       "one", "per", "page.">>)
    ELSE Report1(st, <<"Missing", "heading.">>)

OgCheck(st, og_count) ==
    Deduct(st, og_count = 0, 20,
           <<"Missing", "Open", "Graph", "tags.", "These", "are",
             "essential", "for", "social", "media", "sharing.">>)

ProbeStatus(outcome) == IF outcome = "200" THEN "Found" ELSE "Not Found"

\* a HEAD probe: an issue unless the status is 200, never a change of score
ProbeCheck(st, outcome, not_found, failed) ==
    IF outcome = "200" THEN st
    ELSE IF outcome = "other" THEN Report1(st, not_found)
    ELSE Report1(st, failed)

RobotsCheck(st, robots) ==
    ProbeCheck(st, robots,
               <<"robots.txt", "file", "not", "found.", "This", "may", "impact",
                 "search", "engine", "crawling.">>,
               <<"Could", "not", "check", "for", "robots.txt.">>)

SitemapCheck(st, sitemap) ==
    ProbeCheck(st, sitemap,
               <<"sitemap.xml", "file", "not", "found.", "This", "is", "recommended",
                 "for", "SEO.">>,
               <<"Could", "not", "check", "for", "sitemap.xml.">>)

SeoResult(st, html, robots, sitemap) ==
    [ metrics |-> [ title              |-> IF html.title_len > 0 THEN html.title_len
                                           ELSE NoTitle,
                    meta_description   |-> html.desc_len,
                    h1_count           |-> html.h1_count,
                    og_tags            |-> html.og_count,
                    robots_txt_status  |-> ProbeStatus(robots),
                    sitemap_xml_status |-> ProbeStatus(sitemap) ],
      score   |-> Clamp(st.score),
      issues  |-> st.issues ]

analyze_seo(html, url, robots, sitemap) ==
    IF html = EmptyText
    THEN [ metrics |-> << >>, score |-> 0,
           issues |-> << <<"No", "HTML", "fetched", "for", "SEO.">> >> ]
    ELSE SeoResult(
             SitemapCheck(
                 RobotsCheck(
                     OgCheck(
                         H1Check(
                             DescCheck(
                                 TitleCheck([score |-> 0, issues |-> <<>>],
                                            html.title_len),
                                 html.desc_len),
                             html.h1_count),
                         html.og_count),
                     robots),
                 sitemap),
             html, robots, sitemap)

(***************************************************************************)
(* analyze_accessibility(html, url).  The score is a float.                *)
(***************************************************************************)
\* if cond: score -= x; issues.append(issue), x a float
FDeduct(st, cond, x, issue) ==
    IF cond
    THEN [score |-> FSub(st.score, x), issues |-> Append(st.issues, issue)]
    ELSE st

\* (part / total) * weight
Share(part, total, weight) == FMul(FDivInt(part, total), FFromInt(weight))

AltCheck(st, imgs, imgs_no_alt) ==
    IF imgs > 0 /\ imgs_no_alt > 0
    THEN FDeduct(st, TRUE, Share(imgs_no_alt, imgs, 30),
                 <<ToString(imgs_no_alt), "images", "missing", "alt", "attributes.">>)
    ELSE st

HeadingCheck(st, h1_count) ==
    FDeduct(st, h1_count = 0, FFromInt(10), <<"Missing", "heading.">>)

LangCheck(st, html_lang) ==
    FDeduct(st, ~html_lang, FFromInt(10),
            <<"Missing", "lang", "attribute", "on", "<html>", "tag.">>)

LinkCheck(st, links, empty_links) ==
    IF links > 0 /\ empty_links > 0
    THEN FDeduct(st, TRUE, Share(empty_links, links, 10),
                 <<ToString(empty_links), "links", "with", "no", "text.">>)
    ELSE st

\* min(100, score) of a float
FMin100(score) == IF FCmp(FFromInt(100), score) <= 0 THEN FFromInt(100) ELSE score

\* max(0, score) of a float
FMax0(score) == IF FCmp(FZero, score) >= 0 THEN FZero ELSE score

FClamp(score) == FMax0(FMin100(score))

AccessibilityResult(st) ==
    [metrics |-> << >>, score |-> FClamp(st.score), issues |-> st.issues]

analyze_accessibility(html, url) ==
    IF html = EmptyText
    THEN [ metrics |-> << >>, score |-> FZero,
           issues |-> << <<"No", "HTML", "fetched", "for", "accessibility.">> >> ]
    ELSE AccessibilityResult(
             LinkCheck(
                 LangCheck(
                     HeadingCheck(
                         AltCheck([score |-> FFromInt(100), issues |-> <<>>],
                                  html.imgs, html.imgs_no_alt),
                         html.h1_count),
                     html.html_lang),
                 html.links, html.empty_links))

(***************************************************************************)
(* The aggregation of audit(): the weighted overall score, the grade and   *)
(* the issue counts; the report.                                           *)
(***************************************************************************)
\* the float literals 0.35, 0.30, 0.25, 0.10: the doubles nearest to them
WEIGHTS ==
    [ security      |-> FDivInt(35, 100),
      performance   |-> FDivInt(30, 100),
      seo           |-> FDivInt(25, 100),
      accessibility |-> FDivInt(10, 100) ]

\* round(sec * w + perf * w + seo * w + acc * w), summed left to right;
\* sec, perf and seo are ints, acc is the float of analyze_accessibility
Overall(sec, perf, seo, acc) ==
    FRoundToInt(
        FAdd(FAdd(FAdd(FMul(FFromInt(sec), WEIGHTS.security),
                       FMul(FFromInt(perf), WEIGHTS.performance)),
                  FMul(FFromInt(seo), WEIGHTS.seo)),
             FMul(acc, WEIGHTS.accessibility)))

\* "marker" in issue.  Every issue text the analyzers build holds the
\* markers as whole words only, so the search is over the words.
Contains(issue, marker) == \E i \in 1..Len(issue) : issue[i] = marker

\* the markers searched whatever their case
IsCriticalAnyCase(issue) ==
    \E i \in 1..Len(issue) :
        issue[i] \in {"Missing", "missing", "Invalid", "invalid", "High", "high"}

IsCritical(issue) ==
    Contains(issue, "Missing") \/ Contains(issue, "Invalid") \/ Contains(issue, "High")

RECURSIVE CountCritical(_)
CountCritical(issues) ==
    IF issues = <<>> THEN 0
    ELSE (IF IsCritical(Head(issues)) THEN 1 ELSE 0) + CountCritical(Tail(issues))

IssuesCombined(sec, perf, seo, acc) ==
    sec.issues \o perf.issues \o seo.issues \o acc.issues

IssuesCount(issues_combined, critical_issues) ==
    [critical |-> critical_issues, minor |-> Len(issues_combined) - critical_issues]

OverallGrade(overall) == [score |-> overall, grade |-> letter_grade(overall)]

\* lines 273-295: the report built from the four analyzers' results
BuildReport(url, ssl, sec, perf, seo, acc, timestamp) ==
    [ timestamp     |-> timestamp,
      url           |-> url,
      status        |-> "success",
      overall       |-> OverallGrade(Overall(sec.metrics.score, perf.score,
                                             seo.score, acc.score)),
      security      |-> [ metrics   |-> sec.metrics,
                          score     |-> sec.metrics.score,
                          ssl_error |-> ssl.err,
                          issues    |-> sec.issues ],
      performance   |-> perf,
      seo           |-> seo,
      accessibility |-> acc,
      issues_count  |-> IssuesCount(IssuesCombined(sec, perf, seo, acc),
                                    CountCritical(IssuesCombined(sec, perf, seo, acc))) ]

\* audit() from the analyzers on: d holds what the run draws (rnd, lcp,
\* fcp, cls) and what the two SEO probes answer (robots, sitemap)
Report(url, ssl, resp, load_time, d, timestamp) ==
    BuildReport(url, ssl,
                analyze_security(resp, ssl.ok, d.rnd),
                analyze_performance(resp, load_time, d.lcp, d.fcp, d.cls),
                analyze_seo(resp.text, url, d.robots, d.sitemap),
                analyze_accessibility(resp.text, url),
                timestamp)

ProbeOutcomes == {"200", "other", "error"}

\* a sample of the floats random.uniform(lo, hi) can return: the two values
\* around the threshold the code compares with when the range holds them,
\* else the two ends of the range
UniformSamples(lo, hi, threshold) ==
    IF lo <= threshold /\ threshold < hi THEN {threshold, threshold + 1} ELSE {lo, hi}

\* random.random() in thousandths
RandomSamples == UniformSamples(0, 999, 100)

LcpSamples(load_time) == UniformSamples(LcpLow(load_time), LcpHigh(load_time), 2500)

FcpSamples(load_time) == UniformSamples(FcpLow(load_time), FcpHigh(load_time), 1800)

ClsSamples == UniformSamples(ClsLow, ClsHigh, 100)

Draws(load_time) ==
    [ rnd     : RandomSamples,
      lcp     : LcpSamples(load_time),
      fcp     : FcpSamples(load_time),
      cls     : ClsSamples,
      robots  : ProbeOutcomes,
      sitemap : ProbeOutcomes ]

(***************************************************************************)
(* Inputs.                                                                 *)
(***************************************************************************)
MaxPad == 1

MaxH1 == 2

MaxOg == 1

MaxImgs == 3

MaxLinks == 3

Spaces(n) == [i \in 1..n |-> " "]

\* the "url" of the request body ("" when the key is missing)
RawUrls ==
    { Spaces(l) \o scheme \o rest \o Spaces(r) :
        l \in 0..MaxPad, r \in 0..MaxPad,
        scheme \in {<<>>, HTTP, HTTPS},
        rest \in {<<>>, <<"a">>} }

\* values of the Set-Cookie header (NoneVal: no such header)
Cookies ==
    { NoneVal, [value |-> <<>>], [value |-> <<"sid=1">>],
      [value |-> <<"sid=1", "Secure">>], [value |-> <<"sid=1", "HTTPONLY">>],
      [value |-> <<"sid=1", "secure", "httponly">>],
      [value |-> <<"sid=1", "Secure", "HttpOnly">>] }

Page(title, desc, h1, og, imgs, no_alt, lang, links, empty) ==
    [ title_len |-> title, desc_len |-> desc, h1_count |-> h1, og_count |-> og,
      imgs |-> imgs, imgs_no_alt |-> no_alt, html_lang |-> lang,
      links |-> links, empty_links |-> empty ]

GoodPage == Page(40, 100, 1, 1, 2, 0, TRUE, 2, 0)

PoorPage == Page(NoTitle, 0, 0, 0, 3, 1, FALSE, 3, 2)

Response(status_code, headers, set_cookie, content_len, text) ==
    [ status_code |-> status_code, headers |-> headers, set_cookie |-> set_cookie,
      content_len |-> content_len, text |-> text ]

StatusCodes == {200, 404}

\* the security headers and Set-Cookie value of the audited responses
PipelineHeaders ==
    { [headers |-> SecurityHeaderNames, set_cookie |-> NoneVal],
      [headers |-> SecurityHeaderNames \ {"Content-Security-Policy"},
       set_cookie |-> [value |-> <<"sid=1", "Secure">>]] }

\* the responses the audit is run against
PipelineResponses ==
    { Response(st, h.headers, h.set_cookie, IF t = EmptyText THEN 0 ELSE 500 * 1024, t) :
        st \in StatusCodes, h \in PipelineHeaders,
        t \in {EmptyText, GoodPage, PoorPage} }

\* 2.5 s: the simulated LCP and FCP fall on both sides of their thresholds
PipelineLoadTimes == {250}

\* what fetch_page(url) can return.  requests refuses a URL without a host
\* (InvalidURL), which fetch_page catches like every other failure.
FetchOutcomes(url) ==
    { [resp |-> NoneVal, load_time |-> NoTime] }
        \cup (IF NetLoc(url) = <<>> THEN {}
              ELSE [resp : PipelineResponses, load_time : PipelineLoadTimes])

\* the calls of the analyzers on their own
SecurityInputs ==
    [ fn     : {"analyze_security"},
      resp   : {NoneVal} \cup
               { Response(st, h, c, 0, EmptyText) :
                   st \in StatusCodes, h \in SUBSET SecurityHeaderNames, c \in Cookies },
      ssl_ok : BOOLEAN ]

\* body lengths on both sides of 1024, 2048 and 4096 KB (1024.0 and 1024.01)
ContentLengths ==
    { 0, 500 * 1024, 1024 * 1024 + 5, 1024 * 1024 + 6, 2048 * 1024 + 5,
      2048 * 1024 + 6, 4096 * 1024 + 5, 4096 * 1024 + 6 }

LoadTimes == {NoTime, 50, 200, 201, 250, 400, 401, 600, 601, 700}

PerformanceInputs ==
    [ fn        : {"analyze_performance"},
      resp      : {NoneVal} \cup
                  { Response(200, {}, NoneVal, n, IF n = 0 THEN EmptyText ELSE GoodPage) :
                      n \in ContentLengths },
      load_time : LoadTimes ]

SeoPages ==
    { Page(t, d, h, og, 0, 0, TRUE, 0, 0) :
        t \in {NoTitle, 0, 5, 10, 70, 71}, d \in {0, 49, 50, 160, 161},
        h \in 0..MaxH1, og \in 0..MaxOg }

SeoInputs ==
    [ fn : {"analyze_seo"}, html : {EmptyText} \cup SeoPages, url : {HTTPS \o <<"a">>} ]

AccessibilityPages ==
    { Page(40, 100, h, 1, i, ia, lang, l, el) :
        h \in {0, 1}, lang \in BOOLEAN,
        i \in 0..MaxImgs, ia \in 0..MaxImgs, l \in 0..MaxLinks, el \in 0..MaxLinks }

AccessibilityInputs ==
    [ fn   : {"analyze_accessibility"},
      html : {EmptyText} \cup {p \in AccessibilityPages :
                                  p.imgs_no_alt <= p.imgs /\ p.empty_links <= p.links},
      url  : {HTTPS \o <<"a">>} ]

\* component scores of the four analyzers
OverallInputs ==
    [ fn : {"overall"}, security : {0, 60, 90, 100}, performance : {0, 1, 55, 100},
      seo : {0, 70, 100}, accessibility : {0, 82, 85, 100} ]

\* the captured artifacts the pipeline is run on again: the fetch response,
\* the elapsed time, the TLS probe result and what the two HEAD probes answer
Captures ==
    [ url       : {HTTPS \o <<"a">>},
      ssl       : {[ok |-> FALSE, err |-> "certificate verify failed"]},
      resp      : { Response(200, h.headers, h.set_cookie, 500 * 1024, PoorPage) :
                      h \in PipelineHeaders },
      load_time : {50, 250},
      robots    : {"200", "error"},
      sitemap   : {"200"} ]

(***************************************************************************)
(* The /audit handler, one step per blocking call.                         *)
(*   request   the "url" of the request being served (consumed on entry)   *)
(*   pc        "idle", "probe", "fetch", "analyze", "done"                 *)
(*   url, host the normalized URL and its host                             *)
(*   ssl       NoneVal or [ok, err], what check_ssl_valid returned         *)
(*   fetched   NoneVal or [resp, load_time], what fetch_page returned      *)
(*   calls     the probes and analyzers the request has run                *)
(*   response  NoneVal or [code, body], what the handler returned          *)
(* The analyzers on their own:                                             *)
(*   fn_in     the analyzer called and its arguments, fn_out its result    *)
(* The pipeline run again on one captured fetch and probe result:          *)
(*   captured  the captured artifacts, reports the reports so far, now     *)
(*   the clock the timestamps are read from                                *)
(***************************************************************************)
VARIABLES request, pc, url, host, ssl, fetched, calls, response,
          fn_in, fn_out, captured, reports, now

vars == << request, pc, url, host, ssl, fetched, calls, response,
           fn_in, fn_out, captured, reports, now >>

auditVars == <<request, pc, url, host, ssl, fetched, calls, response>>

fnVars == <<fn_in, fn_out>>

replayVars == <<captured, reports, now>>

AuditIdle ==
    /\ pc = "idle"
    /\ url = <<>>
    /\ host = <<>>
    /\ ssl = NoneVal
    /\ fetched = NoneVal
    /\ calls = {}
    /\ response = NoneVal

FnIdle == fn_in = NoneVal /\ fn_out = NoneVal

ReplayIdle == captured = NoneVal /\ reports = <<>> /\ now = 0

Init ==
    /\ request \in [url : RawUrls]
    /\ AuditIdle
    /\ FnIdle
    /\ ReplayIdle

\* if not resp: a response whose status is 400 or above is falsy too
Falsy(resp) == ~RespTruthy(resp)

\* if resp is None (line 265)
Unreachable(resp) == resp = NoneVal

\* lines 255-261: the URL is normalized, an empty one is refused
Request ==
    /\ pc = "idle"
    /\ request # NoneVal
    /\ LET u == normalize_url(request.url)
       IN  /\ url' = u
           /\ IF ~StrTruthy(u)
              THEN /\ response' = [code |-> 400, body |-> [error |-> "URL required"]]
                   /\ pc' = "done"
                   /\ host' = host
              ELSE /\ host' = hostname_from_url(u)
                   /\ pc' = "probe"
                   /\ response' = response
    /\ request' = NoneVal
    /\ UNCHANGED <<ssl, fetched, calls, fnVars, replayVars>>

\* line 262: check_ssl_valid(host) answers (True, "Valid") or (False, str(e))
ProbeTLS ==
    /\ pc = "probe"
    /\ \E ok \in BOOLEAN :
          ssl' = [ok |-> ok, err |-> IF ok THEN "Valid" ELSE "certificate verify failed"]
    /\ calls' = calls \cup {"check_ssl_valid"}
    /\ pc' = "fetch"
    /\ UNCHANGED <<request, url, host, fetched, response, fnVars, replayVars>>

\* lines 263-266: fetch_page(url); no response ends the audit with a 500
FetchPage ==
    /\ pc = "fetch"
    /\ \E f \in FetchOutcomes(url) :
          /\ fetched' = f
          /\ IF Unreachable(f.resp)
             THEN /\ response' = [code |-> 500, body |-> [error |-> "Failed to fetch page."]]
                  /\ pc' = "done"
             ELSE /\ response' = response
                  /\ pc' = "analyze"
    /\ calls' = calls \cup {"fetch_page"}
    /\ UNCHANGED <<request, url, host, ssl, fnVars, replayVars>>

\* lines 268-295: the four analyzers, the aggregation and the report
Analyze ==
    /\ pc = "analyze"
    /\ \E d \in Draws(fetched.load_time) :
          response' = [ code |-> 200,
                        body |-> Report(url, ssl, fetched.resp, fetched.load_time, d, now) ]
    /\ calls' = calls \cup { "analyze_security", "analyze_performance",
                             "analyze_seo", "analyze_accessibility" }
    /\ pc' = "done"
    /\ UNCHANGED <<request, url, host, ssl, fetched, fnVars, replayVars>>

Next == Request \/ ProbeTLS \/ FetchPage \/ Analyze

Spec == Init /\ [][Next]_vars

(***************************************************************************)
(* The analyzers and the aggregation called on their own: fn_in is the     *)
(* call, fn_out what it returns.                                           *)
(***************************************************************************)
AuditOff ==
    /\ request = NoneVal
    /\ pc = "off"
    /\ url = <<>>
    /\ host = <<>>
    /\ ssl = NoneVal
    /\ fetched = NoneVal
    /\ calls = {}
    /\ response = NoneVal

InitFn ==
    /\ AuditOff
    /\ fn_in \in SecurityInputs \cup PerformanceInputs \cup SeoInputs
                   \cup AccessibilityInputs \cup OverallInputs
    /\ fn_out = NoneVal
    /\ ReplayIdle

Called(fn) == fn_in # NoneVal /\ fn_in.fn = fn /\ fn_out = NoneVal

CallSecurity ==
    /\ Called("analyze_security")
    /\ \E rnd \in RandomSamples :
          fn_out' = analyze_security(fn_in.resp, fn_in.ssl_ok, rnd)
    /\ UNCHANGED <<auditVars, fn_in, replayVars>>

CallPerformance ==
    /\ Called("analyze_performance")
    /\ \E lcp \in LcpSamples(fn_in.load_time), fcp \in FcpSamples(fn_in.load_time),
          cls \in ClsSamples :
          fn_out' = analyze_performance(fn_in.resp, fn_in.load_time, lcp, fcp, cls)
    /\ UNCHANGED <<auditVars, fn_in, replayVars>>

CallSeo ==
    /\ Called("analyze_seo")
    /\ \E robots \in ProbeOutcomes, sitemap \in ProbeOutcomes :
          fn_out' = analyze_seo(fn_in.html, fn_in.url, robots, sitemap)
    /\ UNCHANGED <<auditVars, fn_in, replayVars>>

CallAccessibility ==
    /\ Called("analyze_accessibility")
    /\ fn_out' = analyze_accessibility(fn_in.html, fn_in.url)
    /\ UNCHANGED <<auditVars, fn_in, replayVars>>

\* lines 273-279 on given component scores
CallOverall ==
    /\ Called("overall")
    /\ fn_out' = OverallGrade(Overall(fn_in.security, fn_in.performance, fn_in.seo,
                                      FFromInt(fn_in.accessibility)))
    /\ UNCHANGED <<auditVars, fn_in, replayVars>>

NextFn == CallSecurity \/ CallPerformance \/ CallSeo \/ CallAccessibility \/ CallOverall

SpecFn == InitFn /\ [][NextFn]_vars

(***************************************************************************)
(* The pipeline of lines 268-295 run twice on the same captured artifacts. *)
(***************************************************************************)
MaxRuns == 2

InitReplay ==
    /\ AuditOff
    /\ FnIdle
    /\ captured \in Captures
    /\ reports = <<>>
    /\ now = 0

RunPipeline ==
    /\ Len(reports) < MaxRuns
    /\ \E d \in Draws(captured.load_time) :
          /\ d.robots = captured.robots
          /\ d.sitemap = captured.sitemap
          /\ reports' = Append(reports, Report(captured.url, captured.ssl, captured.resp,
                                               captured.load_time, d, now))
    /\ now' = now + 1
    /\ UNCHANGED <<auditVars, fnVars, captured>>

NextReplay == RunPipeline

SpecReplay == InitReplay /\ [][NextReplay]_vars

(***************************************************************************)
(* Properties of the analyzers called on their own (SpecFn).               *)
(***************************************************************************)
Returned(fn) == fn_in # NoneVal /\ fn_in.fn = fn /\ fn_out # NoneVal

InvalidCertificateIssue == <<"Invalid", "SSL/TLS", "certificate.">>

CouldNotFetchIssue == <<"Could", "not", "fetch", "page", "for", "security", "analysis.">>

\* C1: each of the four analyzers returns a score s with 0 <= s <= 100 for
\* every input, an absent fetch result and absent HTML included.  (The
\* accessibility score is a float of the model, which holds no value below
\* zero: analyze_accessibility deducts at most 60 from 100.)
C1_ScoresInRange ==
    /\ Returned("analyze_security") => fn_out.metrics.score \in 0..100
    /\ Returned("analyze_performance") => fn_out.score \in 0..100
    /\ Returned("analyze_seo") => fn_out.score \in 0..100
    /\ Returned("analyze_accessibility") =>
           /\ FCmp(FZero, fn_out.score) <= 0
           /\ FCmp(fn_out.score, FFromInt(100)) <= 0

\* TLS invalid, six missing headers and both cookie penalties: 100 - 120
C1_Witness ==
    /\ Returned("analyze_security")
    /\ ~fn_in.ssl_ok
    /\ fn_in.resp # NoneVal
    /\ fn_in.resp.headers = {}
    /\ fn_in.resp.set_cookie = [value |-> <<"sid=1">>]
    /\ Len(fn_out.issues) = 9
    /\ fn_out.metrics.score = 0

\* analyze_security called with TLS invalid on a response with all six headers
C5_Case ==
    /\ Returned("analyze_security")
    /\ fn_in.resp # NoneVal
    /\ SecurityHeaderNames \subseteq fn_in.resp.headers
    /\ ~fn_in.ssl_ok

C5_Sixty == fn_out.metrics.score = 60 /\ fn_out.issues = <<InvalidCertificateIssue>>

\* the Set-Cookie value is absent or empty, or names both flags in any case
C5_CookieFlagged ==
    \/ fn_in.resp.set_cookie = NoneVal
    \/ fn_in.resp.set_cookie.value = <<>>
    \/ /\ \E i \in 1..Len(fn_in.resp.set_cookie.value) :
             fn_in.resp.set_cookie.value[i] \in {"secure", "Secure", "SECURE"}
       /\ \E i \in 1..Len(fn_in.resp.set_cookie.value) :
             fn_in.resp.set_cookie.value[i] \in {"httponly", "HttpOnly", "HTTPONLY"}

\* C5, as stated: for every successful fetch response that carries all six
\* security headers, analyze_security called with TLS invalid returns score
\* 60 and exactly one issue, the invalid SSL/TLS certificate issue.
C5_AsStated == (C5_Case /\ fn_in.resp.status_code = 200) => C5_Sixty

\* C5, amended: the same for every fetch response with all six headers whose
\* Set-Cookie header is absent or empty or carries both the secure and the
\* httponly attribute (in any case).
C5_Amended == (C5_Case /\ C5_CookieFlagged) => C5_Sixty

C5_Witness ==
    /\ C5_Case
    /\ fn_in.resp.set_cookie = [value |-> <<"sid=1", "Secure", "HttpOnly">>]
    /\ C5_Sixty

C6_Case == Returned("analyze_security") /\ fn_in.resp = NoneVal

\* C6, as stated: with the fetch result absent analyze_security returns
\* score 0, TLS valid or not, and its issue list is the single
\* could-not-fetch-page issue.
C6_AsStated ==
    C6_Case => fn_out.metrics.score = 0 /\ fn_out.issues = <<CouldNotFetchIssue>>

\* C6, amended: with the fetch result absent analyze_security returns score
\* 0, TLS valid or not; its issue list ends with the one could-not-fetch-page
\* issue, which the invalid-certificate issue precedes when TLS is invalid.
C6_Amended ==
    C6_Case =>
        /\ fn_out.metrics.score = 0
        /\ fn_out.issues =
               (IF fn_in.ssl_ok THEN <<>> ELSE <<InvalidCertificateIssue>>)
                   \o <<CouldNotFetchIssue>>

C6_Witness ==
    /\ C6_Case
    /\ ~fn_in.ssl_ok
    /\ fn_out.metrics.score = 0
    /\ Len(fn_out.issues) = 2

\* analyze_performance called on a 500 KB body fetched in 7.0 s
C7_Case ==
    /\ Returned("analyze_performance")
    /\ fn_in.resp # NoneVal
    /\ fn_in.resp.content_len = 500 * 1024
    /\ fn_in.load_time = 700

VeryHighLoadTime7 == <<"Very", "high", "load", "time", "7.0s.">>

C8_AsStated ==
    Returned("overall") =>
        /\ fn_out.score =
               RoundHalfEven(35 * fn_in.security + 30 * fn_in.performance
                                 + 25 * fn_in.seo + 10 * fn_in.accessibility, 100)
        /\ fn_out.score \in 0..100

(***************************************************************************)
(* Properties of the /audit handler (Spec).                                *)
(***************************************************************************)
AuditSucceeded == pc = "done" /\ response # NoneVal /\ response.code = 200

\* C3: a request whose URL is empty (missing, "" or only whitespace) is
\* rejected with a request-level error and the audit never starts: the
\* handler answers 400 in its first step, with no probe, fetch or analyzer
\* called.
C3_AsStated ==
    [][ (pc = "idle" /\ request # NoneVal /\ Strip(request.url) = <<>>)
            => (pc' = "done" /\ response' # NoneVal /\ response'.code = 400
                    /\ calls' = {}) ]_vars

\* C4: an audit that has started (has probed TLS) ends in a failure response
\* if and only if fetch_page returned no response; with a response it ends
\* with a success report that carries the four analyzers' outcomes.
C4_FailsOnlyUnreachable ==
    (pc = "done" /\ "check_ssl_valid" \in calls) =>
        /\ response # NoneVal
        /\ fetched # NoneVal
        /\ response.code # 200 <=> fetched.resp = NoneVal
        /\ fetched.resp = NoneVal => response.code = 500
        /\ fetched.resp # NoneVal =>
               /\ response.code = 200
               /\ response.body.status = "success"
               /\ {"security", "performance", "seo", "accessibility"}
                      \subseteq DOMAIN response.body
               /\ \A part \in {"security", "performance", "seo", "accessibility"} :
                      {"score", "issues"} \subseteq DOMAIN response.body[part]

\* a success despite a failed TLS probe, a 404 page, a missing header and
\* two failed HEAD probes
C4_Witness ==
    /\ AuditSucceeded
    /\ ~ssl.ok
    /\ fetched.resp.status_code = 404
    /\ \E i \in 1..Len(response.body.security.issues) :
          response.body.security.issues[i]
              = <<"Missing", "Content-Security-Policy", "header.">>
    /\ \E i \in 1..Len(response.body.seo.issues) :
          response.body.seo.issues[i] = <<"Could", "not", "check", "for", "robots.txt.">>
    /\ \E i \in 1..Len(response.body.seo.issues) :
          response.body.seo.issues[i] = <<"Could", "not", "check", "for", "sitemap.xml.">>

ReportedIssues(body) ==
    body.security.issues \o body.performance.issues
        \o body.seo.issues \o body.accessibility.issues

HasMarker(issue) ==
    \E i \in 1..Len(issue) : issue[i] \in {"Missing", "Invalid", "High"}

Marked(issues) == {i \in 1..Len(issues) : HasMarker(issues[i])}

\* C9: in every report issues_count.critical is the number of issues of the
\* four analyzers that hold Missing, Invalid or High (in that case exactly),
\* and issues_count.minor the number of the others.
C9_IssueCounts ==
    AuditSucceeded =>
        /\ response.body.issues_count.critical
               = Cardinality(Marked(ReportedIssues(response.body)))
        /\ response.body.issues_count.minor
               = Cardinality((1..Len(ReportedIssues(response.body)))
                                 \ Marked(ReportedIssues(response.body)))
        /\ response.body.issues_count.critical + response.body.issues_count.minor
               = Len(ReportedIssues(response.body))

\* a report with critical issues and with the minor issue "Cookies missing
\* HttpOnly flag.", whose "missing" is no marker
C9_Witness ==
    /\ AuditSucceeded
    /\ \E i \in 1..Len(response.body.security.issues) :
          response.body.security.issues[i] = <<"Cookies", "missing", "HttpOnly", "flag.">>
    /\ response.body.issues_count.critical > 0
    /\ response.body.issues_count.minor > 1

\* C10: whenever the fetch returned a response, whatever its status code,
\* the security metrics hold a present/absent entry for each of the six
\* headers, absent exactly for the headers reported as missing.
C10_AsStated ==
    AuditSucceeded =>
        /\ DOMAIN response.body.security.metrics.security_headers = SecurityHeaderNames
        /\ \A h \in SecurityHeaderNames :
              response.body.security.metrics.security_headers[h]
                  = ~(\E i \in 1..Len(response.body.security.issues) :
                         response.body.security.issues[i] = <<"Missing", h, "header.">>)

(***************************************************************************)
(* Property of the pipeline run again (SpecReplay).                        *)
(***************************************************************************)
\* C2: two runs of the pipeline on the same captured response, elapsed time
\* and TLS probe result give reports that are identical in every field
\* except timestamp.
C2_AsStated ==
    Len(reports) >= 2 =>
        [reports[1] EXCEPT !.timestamp = 0] = [reports[2] EXCEPT !.timestamp = 0]

====
